---- MODULE Spec2Model ----
(***************************************************************************)
(* Model of pianonet.training_utils.run.Run: one run directory on durable  *)
(* storage, and the single process (Run.__init__ followed by Run.execute)  *)
(* that operates on it.  A process can be interrupted between any two of   *)
(* its steps and the directory can then be started again.                  *)
(***************************************************************************)
EXTENDS Integers, Sequences, FiniteSets, TLC

VARIABLES
    files,            \* paths of the files that exist on durable storage
    state_json,       \* content of state.json (NoState when the file is absent)
    pc,               \* position of the process inside __init__ / execute
    state,            \* self.state
    run_description,  \* the run_description dictionary held by the process
    training_description,  \* execute's local training_description (line 199)
    model,            \* self.model: the path it was loaded from ("" = none)
    generator,        \* training generator cursor: path restored from ("" = initial)
    compiled,         \* whether this process called model.compile
    batch,            \* batches processed by model.fit in this process
    built,            \* whether this process ran the model creation command
    written,          \* paths written by this process
    removed,          \* paths removed by this process
    ckpt,             \* paths written by the checkpoint_method call in progress (or last made)
    ckpt_count,       \* calls of checkpoint_method begun by this process
    failure,          \* the exception that ended this process ("" = none)
    starts,           \* number of Run constructions made on the directory
    used_indices,     \* run indices under which earlier constructions have executed
    state_at_start,   \* content of state.json when this process was constructed
    files_at_start,   \* the files that existed when this process was constructed
    previous_ckpt,    \* what the checkpoint_method call of the process before had written
    note_array_args,  \* the arguments of a NoteArray constructor call
    note_array,       \* the NoteArray it constructed (NoNoteArray when there is none)
    note_array_error, \* the exception the constructor or a query raised ("" = none)
    pianoroll_out,    \* the array of the Pianoroll get_pianoroll returned
    note_array_pc     \* "call", "constructed", "raised" or "decoded"

run_vars == <<files, state_json, pc, state, run_description, training_description, model,
              generator, compiled, batch, built, written, removed, ckpt, ckpt_count,
              failure, starts, used_indices, state_at_start, files_at_start,
              previous_ckpt>>

note_vars == <<note_array_args, note_array, note_array_error, pianoroll_out,
               note_array_pc>>

vars == <<run_vars, note_vars>>

\* ---------------------------------------------------------------- bounds
MaxStarts == 4
MaxBatches == 2
MaxFrequency == 2

\* ---------------------------------------------------------------- paths
RunPath == "/runs/run"
PretrainedModelPath == "/models/pretrained.model"
AbsentModelPath == "/models/absent.model"

NoState == [run_index |-> -1, status |-> "absent"]

get_full_path_from_run_file_name(file_name) == RunPath \o "/" \o file_name

get_state_path == get_full_path_from_run_file_name("state.json")

get_index_prepended_file_base_name(index, file_base_name) ==
    ToString(index) \o "_" \o file_base_name

get_run_index(st) == st.run_index

get_status(st) == st.status

\* Variant of get_previous_run_index_prefixed_path that forgets the "- 1".
get_previous_run_index_prefixed_path_SameIndex(st, file_base_name) ==
    get_full_path_from_run_file_name(
        get_index_prepended_file_base_name(get_run_index(st), file_base_name))

get_previous_run_index_prefixed_path(st, file_base_name) ==
    get_full_path_from_run_file_name(
        get_index_prepended_file_base_name(get_run_index(st) - 1, file_base_name))

\* Variant of get_run_index_prefixed_path that leaves the index out.
get_run_index_prefixed_path_Unprefixed(st, file_base_name) ==
    get_full_path_from_run_file_name(file_base_name)

get_run_index_prefixed_path(st, file_base_name) ==
    get_full_path_from_run_file_name(
        get_index_prepended_file_base_name(get_run_index(st), file_base_name))

\* ---------------------------------------------------------------- inputs
\* The content of run_description.json.  "missing" names the one key that is
\* absent from the dictionary ("none": every key is present); the optional
\* model_initializer entry is the boolean model_initializer.
MissingKeys == {"none", "data_description", "model_description", "model_path",
                "training_description", "validation_description",
                "optimizer_description", "checkpoint_frequency_in_steps"}

ModelPaths == {"", PretrainedModelPath, AbsentModelPath}

RunDescriptions ==
    [missing : MissingKeys,
     model_path : ModelPaths,
     model_initializer : BOOLEAN]

\* run_description['training_description'], as far as execute reads it:
\* total_batches is epochs * training_steps_per_epoch (lines 247-249, 271-273).
TrainingDescriptions ==
    [optimizer_type : {"Adam", "SGD"},
     total_batches : 0..MaxBatches,
     checkpoint_frequency_in_steps : 1..MaxFrequency]

\* What the two hold while the process has not read them.
NoRunDescription ==
    [missing |-> "none", model_path |-> "", model_initializer |-> FALSE]

NoTrainingDescription ==
    [optimizer_type |-> "", total_batches |-> 0, checkpoint_frequency_in_steps |-> 1]

Stopped == {"idle", "done", "failed", "crashed"}

\* ---------------------------------------------------------------- NoteArray values
\* Width of a pianoroll array (note_array.py lines 35, 72).
NumPianoKeys == 128

\* resolution is kept in hundredths: 100 is the 1.0 of lines 20, 39, 55 and 79.
ResolutionOne == 100

\* An argument that was not passed (None), and one that was.
NotGiven == [given |-> FALSE, array |-> <<>>]

Given(array) == [given |-> TRUE, array |-> array]

NoNoteArray ==
    [constructed |-> FALSE, min_key_index |-> 0, num_keys |-> 0, resolution |-> 0,
     time_steps |-> 0, array |-> <<>>]

NoCall ==
    [pianoroll |-> NotGiven, flat_array |-> NotGiven, min_key_index |-> 0,
     num_keys |-> 0, resolution |-> 0]

\* No NoteArray constructor call is in progress.
NoteArrayIdle ==
    /\ note_array_args = NoCall
    /\ note_array = NoNoteArray
    /\ note_array_error = ""
    /\ pianoroll_out = <<>>
    /\ note_array_pc = "idle"

\* ---------------------------------------------------------------- storage
Exists(path) == path \in files

WriteFile(path) ==
    /\ files' = files \cup {path}
    /\ written' = written \cup {path}

Raise(exception) ==
    /\ pc' = "failed"
    /\ failure' = exception

\* The run directory before the first construction of a Run on it.
RunInit ==
    /\ files = {PretrainedModelPath}
    /\ state_json = NoState
    /\ pc = "idle"
    /\ state = NoState
    /\ run_description = NoRunDescription
    /\ training_description = NoTrainingDescription
    /\ model = ""
    /\ generator = ""
    /\ compiled = FALSE
    /\ batch = 0
    /\ built = FALSE
    /\ written = {}
    /\ removed = {}
    /\ ckpt = <<>>
    /\ ckpt_count = 0
    /\ failure = ""
    /\ starts = 0
    /\ used_indices = {}
    /\ state_at_start = NoState
    /\ files_at_start = {}
    /\ previous_ckpt = <<>>

Init ==
    /\ RunInit
    /\ NoteArrayIdle

\* ---------------------------------------------------------------- Run.__init__
\* Lines 81-86.
load_state == state_json

\* Variant of Resuming that resumes only when the recorded run index also left
\* its generator state, and starts as a new run otherwise.
Resuming_NeedsGeneratorState ==
    /\ Exists(get_state_path)
    /\ Exists(get_full_path_from_run_file_name(
                 get_index_prepended_file_base_name(get_run_index(load_state),
                                                    "generator_state.gs")))

\* Line 42: whether the constructor restarts a run or starts a new one.
Resuming == Exists(get_state_path)

\* Lines 42-57: the state the constructor computes.

ResumedState == [load_state EXCEPT !.run_index = @ + 1]

FreshState == [run_index |-> 0, status |-> "running"]

\* Variant of ConstructedState that, without a state record, takes the run
\* index from the artifacts left in the directory.
ConstructedState_FromArtifacts ==
    IF Resuming
    THEN ResumedState
    ELSE IF Exists(get_full_path_from_run_file_name("0_run_desciption.json"))
         THEN [run_index |-> 1, status |-> "running"]
         ELSE FreshState

ConstructedState ==
    IF Resuming THEN ResumedState ELSE FreshState

\* Variant of ResumedRunDescription that keeps the configured model source.
ResumedRunDescription_KeepsSource(rd, st) == rd

\* Lines 47-50: the model description of a resumed run.  The assignment of
\* line 49 creates model_path when the key was absent.
ResumedRunDescription(rd, st) ==
    [rd EXCEPT !.model_path = get_previous_run_index_prefixed_path(st, "trained.model"),
               !.model_initializer = FALSE,
               !.missing = IF @ = "model_path" THEN "none" ELSE @]

\* Lines 40-62: construction of a Run on the directory; rd is the dictionary
\* read from run_description.json.
Construct(rd) ==
    /\ pc \in Stopped
    /\ starts < MaxStarts
    /\ starts' = starts + 1
    /\ state_at_start' = state_json
    /\ files_at_start' = files
    /\ previous_ckpt' = ckpt
    /\ state' = ConstructedState
    /\ used_indices' = IF state = NoState THEN used_indices
                       ELSE used_indices \cup {get_run_index(state)}
    /\ training_description' = NoTrainingDescription
    /\ model' = ""
    /\ generator' = ""
    /\ compiled' = FALSE
    /\ batch' = 0
    /\ built' = FALSE
    /\ written' = {}
    /\ removed' = {}
    /\ ckpt' = <<>>
    /\ ckpt_count' = 0
    /\ IF Resuming
       THEN IF rd.missing = "model_description"
            THEN \* line 49: run_description['model_description'] raises
                 /\ run_description' = rd
                 /\ Raise("KeyError")
            ELSE /\ run_description' = ResumedRunDescription(rd, ConstructedState)
                 /\ IF rd.model_initializer
                    THEN /\ pc' = "execute"
                         /\ failure' = ""
                    ELSE \* line 50: del of a key that is absent raises
                         Raise("KeyError")
       ELSE /\ run_description' = rd
            /\ pc' = "execute"
            /\ failure' = ""
    /\ UNCHANGED <<files, state_json, note_vars>>

\* ---------------------------------------------------------------- Run.execute
\* What a step of execute leaves alone unless it says otherwise.
InMemoryOnly == UNCHANGED <<files, state_json, written, removed, ckpt, ckpt_count,
                            starts, used_indices, state_at_start, files_at_start,
                            previous_ckpt, state, note_vars>>

\* Variant of SaveRunDescription that also saves the state when execute begins.
SaveRunDescription_SavesState ==
    /\ pc = "execute"
    /\ files' = files \cup {get_run_index_prefixed_path(state, "run_desciption.json"),
                             get_state_path}
    /\ written' = written \cup {get_run_index_prefixed_path(state, "run_desciption.json"),
                                 get_state_path}
    /\ state_json' = state
    /\ pc' = "fetch_data"
    /\ UNCHANGED <<state, run_description, training_description, model, generator,
                   compiled, batch, built, removed, ckpt, ckpt_count, failure, starts,
                   used_indices, state_at_start, files_at_start,
                   previous_ckpt, note_vars>>

\* Lines 191-194: the copy of the run description under the run index.
SaveRunDescription ==
    /\ pc = "execute"
    /\ WriteFile(get_run_index_prefixed_path(state, "run_desciption.json"))
    /\ pc' = "fetch_data"
    /\ UNCHANGED <<state_json, state, run_description, training_description, model,
                   generator, compiled, batch, built, removed, ckpt, ckpt_count,
                   failure, starts, used_indices, state_at_start, files_at_start,
                   previous_ckpt, note_vars>>

\* Lines 196, 159-168.
fetch_data ==
    /\ pc = "fetch_data"
    /\ IF run_description.missing = "data_description"
       THEN Raise("KeyError")
       ELSE /\ pc' = "fetch_model"
            /\ UNCHANGED failure
    /\ InMemoryOnly
    /\ UNCHANGED <<run_description, training_description, model, generator, compiled,
                   batch, built>>

\* Variant of ModelSource that tests for the initializer before the path.
ModelSource_InitializerFirst(model_description) ==
    IF model_description.model_initializer
    THEN "initializer"
    ELSE IF model_description.model_path # ""
         THEN "path"
         ELSE "none"

\* Lines 118, 140, 144: which branch of fetch_model a model description takes.
ModelSource(model_description) ==
    IF model_description.model_path = "" /\ model_description.model_initializer
    THEN "initializer"
    ELSE IF model_description.model_path # ""
         THEN "path"
         ELSE "none"

\* Lines 197, 116-127: entry of fetch_model; with an initializer, the builder
\* parameters are dumped to model_parameters.
fetch_model ==
    /\ pc = "fetch_model"
    /\ IF run_description.missing \in {"model_description", "model_path"}
       THEN /\ Raise("KeyError")
            /\ UNCHANGED <<files, written>>
       ELSE IF ModelSource(run_description) = "initializer"
            THEN /\ WriteFile(get_full_path_from_run_file_name("model_parameters"))
                 /\ pc' = "model_creation"
                 /\ UNCHANGED failure
            ELSE IF ModelSource(run_description) = "path"
                 THEN /\ pc' = "load_model"
                      /\ UNCHANGED <<files, written, failure>>
                 ELSE /\ Raise("NoModelSource")
                      /\ UNCHANGED <<files, written>>
    /\ UNCHANGED <<state_json, state, run_description, training_description, model,
                   generator, compiled, batch, built, removed, ckpt, ckpt_count, starts,
                   used_indices, state_at_start, files_at_start,
                   previous_ckpt, note_vars>>

\* Lines 129-134: the model creation command, an external program given
\* model_output_path.  Whether it writes that file and whether it exits with
\* status 0 are independent; check=True raises on any other status.
RunModelCreator(exit_ok, output_written) ==
    /\ pc = "model_creation"
    /\ built' = TRUE
    /\ IF output_written
       THEN WriteFile(get_run_index_prefixed_path(state, "initial.model"))
       ELSE UNCHANGED <<files, written>>
    /\ IF exit_ok
       THEN /\ pc' = "remove_parameters"
            /\ UNCHANGED failure
       ELSE Raise("CalledProcessError")
    /\ UNCHANGED <<state_json, state, run_description, training_description, model,
                   generator, compiled, batch, removed, ckpt, ckpt_count, starts,
                   used_indices, state_at_start, files_at_start,
                   previous_ckpt, note_vars>>

\* Variant of RemoveModelParameters that removes model_output_path instead of
\* model_parameters_file_path.
RemoveModelParameters_RemovesModel ==
    /\ pc = "remove_parameters"
    /\ files' = files \ {get_run_index_prefixed_path(state, "initial.model")}
    /\ removed' = removed \cup {get_run_index_prefixed_path(state, "initial.model")}
    /\ pc' = "load_initial_model"
    /\ UNCHANGED <<state_json, state, run_description, training_description, model,
                   generator, compiled, batch, built, written, ckpt, ckpt_count,
                   failure, starts, used_indices, state_at_start, files_at_start,
                   previous_ckpt, note_vars>>

\* Line 136.
RemoveModelParameters ==
    /\ pc = "remove_parameters"
    /\ files' = files \ {get_full_path_from_run_file_name("model_parameters")}
    /\ removed' = removed \cup {get_full_path_from_run_file_name("model_parameters")}
    /\ pc' = "load_initial_model"
    /\ UNCHANGED <<state_json, state, run_description, training_description, model,
                   generator, compiled, batch, built, written, ckpt, ckpt_count,
                   failure, starts, used_indices, state_at_start, files_at_start,
                   previous_ckpt, note_vars>>

\* load_model(path) of lines 138 and 143.
LoadModelFrom(path, next_pc) ==
    /\ IF Exists(path)
       THEN /\ model' = path
            /\ pc' = next_pc
            /\ UNCHANGED failure
       ELSE /\ Raise("OSError")
            /\ UNCHANGED model
    /\ InMemoryOnly
    /\ UNCHANGED <<run_description, training_description, generator, compiled, batch,
                   built>>

\* Line 138.
LoadInitialModel ==
    /\ pc = "load_initial_model"
    /\ LoadModelFrom(get_run_index_prefixed_path(state, "initial.model"), "generators")

\* Lines 140-143.
LoadModelFromPath ==
    /\ pc = "load_model"
    /\ LoadModelFrom(run_description.model_path, "generators")

\* Lines 199-223: the training and validation descriptions are read and the
\* two sample generators built.
MakeGenerators(td) ==
    /\ pc = "generators"
    /\ IF run_description.missing \in {"training_description", "validation_description"}
       THEN /\ Raise("KeyError")
            /\ UNCHANGED training_description
       ELSE /\ training_description' = td
            /\ pc' = "load_generator"
            /\ UNCHANGED failure
    /\ InMemoryOnly
    /\ UNCHANGED <<run_description, model, generator, compiled, batch, built>>

\* Variant of LoadGeneratorState that never restores the cursor.
LoadGeneratorState_Skipped ==
    /\ pc = "load_generator"
    /\ pc' = "optimizer"
    /\ InMemoryOnly
    /\ UNCHANGED <<run_description, training_description, model, generator, compiled,
                   batch, built, failure>>

\* Variant of LoadGeneratorState that goes on with the initial cursor when the
\* previous run index left no generator state.
LoadGeneratorState_Tolerant ==
    /\ pc = "load_generator"
    /\ generator' =
          IF /\ get_run_index(state) # 0
             /\ Exists(get_previous_run_index_prefixed_path(state, "generator_state.gs"))
          THEN get_previous_run_index_prefixed_path(state, "generator_state.gs")
          ELSE generator
    /\ pc' = "optimizer"
    /\ InMemoryOnly
    /\ UNCHANGED <<run_description, training_description, model, compiled, batch,
                   built, failure>>

\* Lines 225-227: the cursor of the previous run index is restored.
LoadGeneratorState ==
    /\ pc = "load_generator"
    /\ IF get_run_index(state) # 0
       THEN IF Exists(get_previous_run_index_prefixed_path(state, "generator_state.gs"))
            THEN /\ generator' = get_previous_run_index_prefixed_path(state, "generator_state.gs")
                 /\ pc' = "optimizer"
                 /\ UNCHANGED failure
            ELSE /\ Raise("OSError")
                 /\ UNCHANGED generator
       ELSE /\ pc' = "optimizer"
            /\ UNCHANGED <<generator, failure>>
    /\ InMemoryOnly
    /\ UNCHANGED <<run_description, training_description, model, compiled, batch,
                   built>>

\* Lines 231-240.
MakeOptimizer ==
    /\ pc = "optimizer"
    /\ IF run_description.missing = "optimizer_description"
       THEN /\ Raise("KeyError")
            /\ UNCHANGED compiled
       ELSE IF training_description.optimizer_type = "Adam"
            THEN /\ compiled' = (get_run_index(state) = 0)
                 /\ pc' = "callbacks"
                 /\ UNCHANGED failure
            ELSE /\ Raise("OptimizerNotSupported")
                 /\ UNCHANGED compiled
    /\ InMemoryOnly
    /\ UNCHANGED <<run_description, training_description, model, generator, batch,
                   built>>

\* Lines 242-267.
MakeCallbacks ==
    /\ pc = "callbacks"
    /\ IF run_description.missing = "checkpoint_frequency_in_steps"
       THEN Raise("KeyError")
       ELSE /\ pc' = "fit"
            /\ UNCHANGED failure
    /\ InMemoryOnly
    /\ UNCHANGED <<run_description, training_description, model, generator, compiled,
                   batch, built>>

\* ---------------------------------------------------------------- model.fit
\* ExecuteEveryNBatchesCallback: method_to_run is due after every
\* run_frequency_in_batches processed batches.
CheckpointDue(batch_count, run_frequency_in_batches) ==
    batch_count % run_frequency_in_batches = 0

\* Lines 269-277: one more batch is processed.
TrainBatch ==
    /\ pc = "fit"
    /\ batch < training_description.total_batches
    /\ batch' = batch + 1
    /\ pc' = "model_checkpoint"
    /\ InMemoryOnly
    /\ UNCHANGED <<run_description, training_description, model, generator, compiled,
                   built, failure>>

\* Variant of ModelCheckpointSave that also saves the state after every batch.
ModelCheckpointSave_SavesState ==
    /\ pc = "model_checkpoint"
    /\ files' = files \cup {get_run_index_prefixed_path(state, "trained.model"),
                             get_state_path}
    /\ written' = written \cup {get_run_index_prefixed_path(state, "trained.model"),
                                 get_state_path}
    /\ state_json' = state
    /\ pc' = IF CheckpointDue(batch, training_description.checkpoint_frequency_in_steps)
             THEN "checkpoint_state"
             ELSE "fit"
    /\ UNCHANGED <<state, run_description, training_description, model, generator,
                   compiled, batch, built, removed, ckpt, ckpt_count, failure, starts,
                   used_indices, state_at_start, files_at_start,
                   previous_ckpt, note_vars>>

\* Variant of ModelCheckpointSave without the save after every batch.
ModelCheckpointSave_Skipped ==
    /\ pc = "model_checkpoint"
    /\ pc' = IF CheckpointDue(batch, training_description.checkpoint_frequency_in_steps)
             THEN "checkpoint_state"
             ELSE "fit"
    /\ InMemoryOnly
    /\ UNCHANGED <<run_description, training_description, model, generator, compiled,
                   batch, built, failure>>

\* Lines 256-262, 276: the ModelCheckpoint callback (save_freq=1) saves the
\* model after the batch; the ExecuteEveryNBatchesCallback comes after it.
ModelCheckpointSave ==
    /\ pc = "model_checkpoint"
    /\ WriteFile(get_run_index_prefixed_path(state, "trained.model"))
    /\ pc' = IF CheckpointDue(batch, training_description.checkpoint_frequency_in_steps)
             THEN "checkpoint_state"
             ELSE "fit"
    /\ UNCHANGED <<state_json, state, run_description, training_description, model,
                   generator, compiled, batch, built, removed, ckpt, ckpt_count,
                   failure, starts, used_indices, state_at_start, files_at_start,
                   previous_ckpt, note_vars>>

\* Lines 74-79: what save_state puts into state.json.
save_state == state

\* Line 172: checkpoint_method begins and saves the state.
CheckpointSaveState ==
    /\ pc = "checkpoint_state"
    /\ WriteFile(get_state_path)
    /\ state_json' = save_state
    /\ ckpt' = <<get_state_path>>
    /\ ckpt_count' = ckpt_count + 1
    /\ pc' = "checkpoint_model"
    /\ UNCHANGED <<state, run_description, training_description, model, generator,
                   compiled, batch, built, removed, failure, starts, used_indices,
                   state_at_start, files_at_start,
                   previous_ckpt, note_vars>>

\* Variant of CheckpointSaveModel in which checkpoint_method does not save the model.
CheckpointSaveModel_Skipped ==
    /\ pc = "checkpoint_model"
    /\ pc' = "checkpoint_generator"
    /\ InMemoryOnly
    /\ UNCHANGED <<run_description, training_description, model, generator, compiled,
                   batch, built, failure>>

\* Line 173.
CheckpointSaveModel ==
    /\ pc = "checkpoint_model"
    /\ WriteFile(get_run_index_prefixed_path(state, "trained.model"))
    /\ ckpt' = Append(ckpt, get_run_index_prefixed_path(state, "trained.model"))
    /\ pc' = "checkpoint_generator"
    /\ UNCHANGED <<state_json, state, run_description, training_description, model,
                   generator, compiled, batch, built, removed, ckpt_count, failure,
                   starts, used_indices, state_at_start, files_at_start,
                   previous_ckpt, note_vars>>

\* Lines 175-176.
CheckpointSaveGenerator ==
    /\ pc = "checkpoint_generator"
    /\ WriteFile(get_run_index_prefixed_path(state, "generator_state.gs"))
    /\ ckpt' = Append(ckpt, get_run_index_prefixed_path(state, "generator_state.gs"))
    /\ pc' = "fit"
    /\ UNCHANGED <<state_json, state, run_description, training_description, model,
                   generator, compiled, batch, built, removed, ckpt_count, failure,
                   starts, used_indices, state_at_start, files_at_start,
                   previous_ckpt, note_vars>>

\* Lines 269-277: model.fit returns after the last batch; execute and __init__
\* return with it.
FitReturns ==
    /\ pc = "fit"
    /\ batch = training_description.total_batches
    /\ pc' = "done"
    /\ InMemoryOnly
    /\ UNCHANGED <<run_description, training_description, model, generator, compiled,
                   batch, built, failure>>

\* The process is terminated between two of its steps.
Crash ==
    /\ pc \notin Stopped
    /\ pc' = "crashed"
    /\ InMemoryOnly
    /\ UNCHANGED <<run_description, training_description, model, generator, compiled,
                   batch, built, failure>>

Next ==
    \/ \E rd \in RunDescriptions : Construct(rd)
    \/ SaveRunDescription
    \/ fetch_data
    \/ fetch_model
    \/ \E exit_ok \in BOOLEAN, output_written \in BOOLEAN :
          RunModelCreator(exit_ok, output_written)
    \/ RemoveModelParameters
    \/ LoadInitialModel
    \/ LoadModelFromPath
    \/ \E td \in TrainingDescriptions : MakeGenerators(td)
    \/ LoadGeneratorState
    \/ MakeOptimizer
    \/ MakeCallbacks
    \/ TrainBatch
    \/ ModelCheckpointSave
    \/ CheckpointSaveState
    \/ CheckpointSaveModel
    \/ CheckpointSaveGenerator
    \/ FitReturns
    \/ Crash

Spec == Init /\ [][Next]_vars

\* ---------------------------------------------------------------- NoteArray
\* A pianoroll array is a sequence of time steps, each a sequence of
\* NumPianoKeys booleans; key index k is position k + 1.
MaxTimeSteps == 2
MaxFlatLength == 3

KeySamples == {21, 127}

PianorollArray(time_steps, on) ==
    [t \in 1..time_steps |-> [col \in 1..NumPianoKeys |-> <<t, col - 1>> \in on]]

PianorollArrays ==
    UNION {{PianorollArray(time_steps, on) : on \in SUBSET ((1..time_steps) \X KeySamples)} :
              time_steps \in 0..MaxTimeSteps}

FlatArrays == UNION {[1..length -> BOOLEAN] : length \in 0..MaxFlatLength}

\* The constructor calls: NoteArray(pianoroll, flat_array, min_key_index,
\* num_keys, resolution), each initializer passed or left None.
NoteArrayCalls ==
    [pianoroll : {NotGiven} \cup {Given(array) : array \in PianorollArrays},
     flat_array : {NotGiven} \cup {Given(array) : array \in FlatArrays},
     min_key_index : {0, 21, 127},
     num_keys : {0, 1, 2, 88, 128},
     resolution : {50, ResolutionOne, 150}]

\* Pianoroll.stretch / Pianoroll.get_stretched: the array resampled in time to
\* new_time_steps rows (the resampling policy is the Pianoroll's own).
Stretched(array, new_time_steps) ==
    IF Len(array) = 0
    THEN <<>>
    ELSE [t \in 1..new_time_steps |-> array[((t - 1) % Len(array)) + 1]]

\* Variant of BothInitializers with the test on flat_array inverted.
BothInitializers_Inverted(args) == args.pianoroll.given /\ ~args.flat_array.given

\* Line 32.
BothInitializers(args) == args.pianoroll.given /\ args.flat_array.given

\* Variant of Crop that takes the first num_keys columns.
Crop_FromFirstKey(array, min_key_index, num_keys) ==
    [t \in 1..Len(array) |-> [k \in 1..num_keys |-> array[t][k]]]

\* Line 60: pianoroll.array[:, min_key_index:(min_key_index + num_keys)].
Crop(array, min_key_index, num_keys) ==
    [t \in 1..Len(array) |-> [k \in 1..num_keys |-> array[t][min_key_index + k]]]

\* Line 62: cropped_pianoroll.flatten(), row-major.
Flatten(array, width) ==
    [i \in 1..(Len(array) * width) |->
        array[((i - 1) \div width) + 1][((i - 1) % width) + 1]]

\* Lines 32-40: the exception the argument checks raise ("" = none).
ArgumentError(args) ==
    IF BothInitializers(args)
    THEN "Cannot use both a pianoroll and flat_array initializer"
    ELSE IF args.min_key_index + args.num_keys > NumPianoKeys
         THEN "(min_key_index + num_keys) is greater than 128"
         ELSE IF args.resolution > ResolutionOne
              THEN "Provided resolution is greater than 1.0"
              ELSE ""

\* Lines 46-48: the exception the flat_array branch raises ("" = none).
FlatArrayError(args) ==
    IF args.num_keys = 0
    THEN "ZeroDivisionError"
    ELSE IF Len(args.flat_array.array) % args.num_keys # 0
         THEN "flat_array contains a timestep with a partial key state"
         ELSE ""

\* Lines 42-51: the NoteArray built from a flat_array.
FromFlatArray(args) ==
    [constructed |-> TRUE,
     min_key_index |-> args.min_key_index,
     num_keys |-> args.num_keys,
     resolution |-> args.resolution,
     time_steps |-> Len(args.flat_array.array) \div args.num_keys,
     array |-> args.flat_array.array]

\* Lines 42-44, 53-62: the NoteArray built from a pianoroll whose array, after
\* the stretch of line 56 if any, is `array`.
FromPianoroll(args, array) ==
    [constructed |-> TRUE,
     min_key_index |-> args.min_key_index,
     num_keys |-> args.num_keys,
     resolution |-> args.resolution,
     time_steps |-> Len(array),
     array |-> Flatten(Crop(array, args.min_key_index, args.num_keys), args.num_keys)]

NoteArrayRaise(exception) ==
    /\ note_array_error' = exception
    /\ note_array_pc' = "raised"

\* Lines 20-62: NoteArray.__init__.
NoteArrayConstruct(stretched_time_steps) ==
    /\ note_array_pc = "call"
    /\ IF ArgumentError(note_array_args) # ""
       THEN /\ NoteArrayRaise(ArgumentError(note_array_args))
            /\ UNCHANGED note_array
       ELSE IF note_array_args.flat_array.given
            THEN IF FlatArrayError(note_array_args) # ""
                 THEN /\ NoteArrayRaise(FlatArrayError(note_array_args))
                      /\ UNCHANGED note_array
                 ELSE /\ note_array' = FromFlatArray(note_array_args)
                      /\ note_array_pc' = "constructed"
                      /\ UNCHANGED note_array_error
            ELSE IF ~note_array_args.pianoroll.given
                 THEN \* line 53: None has no get_copy
                      /\ NoteArrayRaise("AttributeError")
                      /\ UNCHANGED note_array
                 ELSE /\ note_array' =
                            FromPianoroll(
                                note_array_args,
                                IF note_array_args.resolution # ResolutionOne
                                THEN Stretched(note_array_args.pianoroll.array,
                                               stretched_time_steps)
                                ELSE note_array_args.pianoroll.array)
                      /\ note_array_pc' = "constructed"
                      /\ UNCHANGED note_array_error
    /\ UNCHANGED <<note_array_args, pianoroll_out, run_vars>>

\* Line 70: np.reshape(self.array, (self.time_steps, self.num_keys)).
Reshape(array, time_steps, num_keys) ==
    [t \in 1..time_steps |-> [k \in 1..num_keys |-> array[(t - 1) * num_keys + k]]]

\* Lines 72-75: the zero array with the cropped block written at min_key_index.
Uncropped(cropped, time_steps, min_key_index, num_keys) ==
    [t \in 1..time_steps |->
        [col \in 1..NumPianoKeys |->
            IF col - 1 >= min_key_index /\ col - 1 < min_key_index + num_keys
            THEN cropped[t][col - min_key_index]
            ELSE FALSE]]

\* Lines 64-82: NoteArray.get_pianoroll.
get_pianoroll(stretched_time_steps) ==
    /\ note_array_pc = "constructed"
    /\ IF Len(note_array.array) # note_array.time_steps * note_array.num_keys
       THEN \* line 70: the array cannot be reshaped
            /\ NoteArrayRaise("ValueError")
            /\ UNCHANGED pianoroll_out
       ELSE /\ pianoroll_out' =
                  LET unflattened ==
                          Uncropped(Reshape(note_array.array, note_array.time_steps,
                                            note_array.num_keys),
                                    note_array.time_steps, note_array.min_key_index,
                                    note_array.num_keys)
                  IN  IF note_array.resolution = ResolutionOne
                      THEN unflattened
                      ELSE Stretched(unflattened, stretched_time_steps)
            /\ note_array_pc' = "decoded"
            /\ UNCHANGED note_array_error
    /\ UNCHANGED <<note_array_args, note_array, run_vars>>

\* Lines 84-89.
get_length_in_notes(na) == Len(na.array)

\* Lines 91-96: the integer division raises when num_keys is 0.
get_length_in_timesteps(na) ==
    IF na.num_keys = 0
    THEN [raised |-> TRUE, value |-> 0]
    ELSE [raised |-> FALSE, value |-> get_length_in_notes(na) \div na.num_keys]

NoteArrayInit ==
    /\ RunInit
    /\ note_array_args \in NoteArrayCalls
    /\ note_array = NoNoteArray
    /\ note_array_error = ""
    /\ pianoroll_out = <<>>
    /\ note_array_pc = "call"

NoteArrayNext ==
    \/ \E stretched_time_steps \in 0..MaxTimeSteps :
          NoteArrayConstruct(stretched_time_steps)
    \/ \E stretched_time_steps \in 0..MaxTimeSteps :
          get_pianoroll(stretched_time_steps)

NoteArraySpec == NoteArrayInit /\ [][NoteArrayNext]_vars

\* ---------------------------------------------------------------- properties
\* File names are read back from the path strings themselves.
StartsWith(str, prefix) ==
    /\ Len(str) >= Len(prefix)
    /\ SubSeq(str, 1, Len(prefix)) = prefix

InRunDirectory(name) == RunPath \o "/" \o name

HasIndexPrefix(path, index) ==
    StartsWith(path, InRunDirectory(ToString(index) \o "_"))

IsIndexedArtifact(path) ==
    \E index \in 0..MaxStarts :
        path \in {InRunDirectory(ToString(index) \o "_trained.model"),
                  InRunDirectory(ToString(index) \o "_generator_state.gs"),
                  InRunDirectory(ToString(index) \o "_run_desciption.json")}

Constructed == pc # "idle"

\* C1: a Run constructed on a directory without a state record has
\* run_index = 0 and status = running in memory, whatever other files the
\* directory holds.
C1_FreshStart ==
    (Constructed /\ state_at_start = NoState) =>
        /\ get_run_index(state) = 0
        /\ get_status(state) = "running"

\* C1 witness: a construction without state record on a directory that already
\* holds a run description copy, an initial model and a model snapshot.
C1_Witness ==
    /\ pc = "execute"
    /\ state_at_start = NoState
    /\ {InRunDirectory("0_run_desciption.json"), InRunDirectory("0_initial.model"),
        InRunDirectory("0_trained.model")} \subseteq files_at_start
    /\ get_run_index(state) = 0

\* C2: a Run constructed on a directory whose state record holds run_index = k
\* has run_index = k + 1 and the recorded status in memory; its model
\* description (when the run description has one) points at k_trained.model in
\* the run directory and carries no model_initializer, so fetch_model takes the
\* load branch and the model creation command is not run.
C2_Resume ==
    (Constructed /\ state_at_start # NoState) =>
        /\ get_run_index(state) = get_run_index(state_at_start) + 1
        /\ get_status(state) = get_status(state_at_start)
        /\ run_description.missing # "model_description" =>
              /\ run_description.model_path =
                    InRunDirectory(ToString(get_run_index(state_at_start))
                                   \o "_trained.model")
              /\ ~run_description.model_initializer
              /\ ModelSource(run_description) = "path"
        /\ ~built

\* C2 witness: a construction on a record with run_index = 1 that reached execute.
C2_Witness ==
    /\ pc = "execute"
    /\ get_run_index(state_at_start) = 1
    /\ get_run_index(state) = 2
    /\ run_description.model_path = InRunDirectory("1_trained.model")

\* C3: a process whose run index is not 0 never runs the model creation
\* command, and the model it holds, if any, was loaded from the trained model
\* of the previous run index.
C3_ResumedNeverBuilds ==
    (Constructed /\ get_run_index(state) # 0) =>
        /\ ~built
        /\ pc \notin {"model_creation", "remove_parameters", "load_initial_model"}
        /\ model \in {"", InRunDirectory(ToString(get_run_index(state) - 1)
                                          \o "_trained.model")}

\* C3 witness: a resumed process that loaded its model and reached model.fit.
C3_Witness ==
    /\ pc = "fit"
    /\ get_run_index(state) = 1
    /\ model = InRunDirectory("0_trained.model")

\* C4: every construction operates under a run index no earlier construction
\* on the directory operated under, and no process writes an indexed artifact
\* (trained model, generator state, run description copy) that existed when
\* the process was constructed.
C4_AsClaimed ==
    Constructed =>
        /\ get_run_index(state) \notin used_indices
        /\ \A path \in written \cap files_at_start : ~IsIndexedArtifact(path)

\* C5 as claimed: every path a process writes has the "<run index>_" prefix.
C5_AsClaimed ==
    \A path \in written : HasIndexPrefix(path, get_run_index(state))

\* C5: every path a process writes is state.json, model_parameters, or a name
\* in the run directory with the "<run index>_" prefix.
C5_IndexedWrites ==
    \A path \in written :
        \/ path \in {InRunDirectory("state.json"), InRunDirectory("model_parameters")}
        \/ HasIndexPrefix(path, get_run_index(state))

\* C5 witness: a process of run index 1 that has written its run description
\* copy, the state record, a model snapshot and the generator state.
C5_Witness ==
    /\ get_run_index(state) = 1
    /\ written = {InRunDirectory("1_run_desciption.json"), InRunDirectory("state.json"),
                  InRunDirectory("1_trained.model"),
                  InRunDirectory("1_generator_state.gs")}

\* The three writes of checkpoint_method for a process of the given run index,
\* in the order the claim gives them.
CheckpointWrites(state_record_path, index) ==
    <<state_record_path,
      InRunDirectory(ToString(index) \o "_trained.model"),
      InRunDirectory(ToString(index) \o "_generator_state.gs")>>

InCheckpoint == pc \in {"checkpoint_model", "checkpoint_generator"}

\* What a checkpoint_method call has written is a prefix of `writes`: one path
\* after the state save, two after the model save, all three once it returned.
CheckpointFollows(writes) ==
    /\ Len(ckpt) <= 3
    /\ ckpt = SubSeq(writes, 1, Len(ckpt))
    /\ \A i \in 1..Len(ckpt) : Exists(ckpt[i])
    /\ pc = "checkpoint_model" => Len(ckpt) = 1
    /\ pc = "checkpoint_generator" => Len(ckpt) = 2
    /\ (ckpt_count > 0 /\ ~InCheckpoint /\ pc # "crashed") => Len(ckpt) = 3
    /\ ckpt_count = 0 => ckpt = <<>>

\* C6 as claimed: a checkpoint writes the state record, the model snapshot and
\* the generator state in this order, all three named "<run index>_...".
C6_AsClaimed ==
    CheckpointFollows(CheckpointWrites(
        InRunDirectory(ToString(get_run_index(state)) \o "_state.json"),
        get_run_index(state)))

\* C6: a checkpoint writes state.json, then "<run index>_trained.model", then
\* "<run index>_generator_state.gs"; whatever interrupts it leaves a prefix of
\* these three writes.
C6_CheckpointOrder ==
    CheckpointFollows(CheckpointWrites(InRunDirectory("state.json"),
                                       get_run_index(state)))

\* C6 witness: a process of run index 1 interrupted inside its first
\* checkpoint after the state record and the model were written.
C6_Witness ==
    /\ pc = "crashed"
    /\ get_run_index(state) = 1
    /\ ckpt_count = 1
    /\ ckpt = <<InRunDirectory("state.json"), InRunDirectory("1_trained.model")>>
    /\ ~Exists(InRunDirectory("1_generator_state.gs"))

\* C7: a process has status completed exactly when model.fit has returned
\* after all batches.
C7_AsClaimed ==
    /\ pc = "done" => get_status(state) = "completed"
    /\ (Constructed /\ pc # "done") => get_status(state) # "completed"

\* C8: a process that fails on a missing key of the run description has not
\* run the model creation command, holds no model and has written no file.
C8_AsClaimed ==
    (pc = "failed" /\ failure = "KeyError" /\ run_description.missing # "none") =>
        /\ ~built
        /\ model = ""
        /\ written = {}

\* C9: as long as a process has not begun a composite checkpoint, state.json is
\* as it was when the process was constructed; this holds in particular in every
\* state in which the process has failed, and state.json is absent after a
\* failing process that found none.
C9_FailureKeepsRecord ==
    /\ ckpt_count = 0 =>
          /\ state_json = state_at_start
          /\ Exists(get_state_path) = (state_at_start # NoState)
    /\ pc = "failed" => ckpt_count = 0

\* C9 witness: a second construction at run index 0 on a directory whose first
\* process wrote files but no state record, failing in the model creation command.
C9_Witness ==
    /\ pc = "failed"
    /\ failure = "CalledProcessError"
    /\ starts = 2
    /\ InRunDirectory("0_run_desciption.json") \in files_at_start
    /\ get_run_index(state) = 0
    /\ state_json = NoState

\* C10: the run_index stored in state.json never decreases, state.json is not
\* removed, and the first run_index stored is 0.
C10_PersistedIndexMonotonic ==
    [][/\ state_json # NoState =>
             /\ state_json' # NoState
             /\ get_run_index(state_json') >= get_run_index(state_json)
       /\ (state_json = NoState /\ state_json' # NoState) =>
             get_run_index(state_json') = 0]_vars

\* C10 witness: state.json holds run_index = 2 after three constructions.
C10_Witness ==
    /\ get_run_index(state_json) = 2
    /\ starts = 3

\* The positions of a process after fetch_model has returned.
AfterFetchModel == {"generators", "load_generator", "optimizer", "callbacks", "fit",
                    "model_checkpoint", "checkpoint_state", "checkpoint_model",
                    "checkpoint_generator", "done"}

\* C11: with a non-empty model_path the model is loaded from that path and the
\* model creation command is not run, with or without a model_initializer;
\* with an empty path and a model_initializer the command is run with the
\* output path "<run index>_initial.model", the only initial model it can
\* write, and the model is loaded from that path; with an empty path and no
\* model_initializer fetch_model raises and no model is loaded.
C11_ModelResolution ==
    (Constructed /\ run_description.missing \notin {"model_description", "model_path"}) =>
        /\ run_description.model_path # "" =>
              /\ ~built
              /\ InRunDirectory("model_parameters") \notin written
              /\ model \in {"", run_description.model_path}
              /\ pc \in AfterFetchModel => model = run_description.model_path
        /\ (run_description.model_path = "" /\ run_description.model_initializer) =>
              /\ model \in {"", InRunDirectory(ToString(get_run_index(state))
                                               \o "_initial.model")}
              /\ model # "" =>
                    /\ built
                    /\ Exists(get_run_index_prefixed_path(state, "initial.model"))
              /\ \A index \in 0..MaxStarts :
                    InRunDirectory(ToString(index) \o "_initial.model") \in written =>
                        (built /\ index = get_run_index(state))
              /\ pc \in AfterFetchModel => model # ""
        /\ (run_description.model_path = "" /\ ~run_description.model_initializer) =>
              /\ ~built
              /\ model = ""
              /\ pc \notin AfterFetchModel \cup {"model_creation", "load_model"}

\* C11 witness: a run description with both a path and a model_initializer,
\* whose process loaded the model from the path without running the command.
C11_Witness ==
    /\ pc = "generators"
    /\ run_description.model_path = PretrainedModelPath
    /\ run_description.model_initializer
    /\ model = PretrainedModelPath
    /\ ~built

\* The positions of a process after the step of lines 225-227.
AfterLoadGenerator == AfterFetchModel \ {"generators", "load_generator"}

\* C12: a process restores the training generator's cursor exactly when its
\* run index is not 0, from "<run index - 1>_generator_state.gs"; the cursor
\* is restored after the generators are built and before model.fit, so a
\* process of run index other than 0 processes no batch from the initial cursor.
C12_CursorRestore ==
    Constructed =>
        /\ generator # "" =>
              /\ get_run_index(state) # 0
              /\ generator = InRunDirectory(ToString(get_run_index(state) - 1)
                                            \o "_generator_state.gs")
              /\ training_description # NoTrainingDescription
              /\ pc \in AfterLoadGenerator \cup {"failed", "crashed"}
        /\ pc \in AfterLoadGenerator => (generator # "" <=> get_run_index(state) # 0)
        /\ (batch > 0 /\ get_run_index(state) # 0) => generator # ""

\* C12 witness: a process of run index 2 that restored the cursor of run
\* index 1 and has processed a batch.
C12_Witness ==
    /\ pc = "model_checkpoint"
    /\ batch = 1
    /\ get_run_index(state) = 2
    /\ generator = InRunDirectory("1_generator_state.gs")

\* C13: a Run constructed on a directory with a state record does not raise
\* in its constructor, whether or not the model description carries a
\* model_initializer.  (execute begins by writing the run description copy, so
\* a failed process that has written nothing failed in the constructor.)
C13_AsClaimed ==
    (Constructed /\ state_at_start # NoState
                 /\ run_description.missing # "model_description") =>
        ~(pc = "failed" /\ written = {})

\* The run artifacts: the state record, the model snapshots, the generator
\* states and the run description copies.
IsRunArtifact(path) ==
    \/ path = InRunDirectory("state.json")
    \/ \E index \in 0..MaxStarts :
          path \in {InRunDirectory(ToString(index) \o "_trained.model"),
                    InRunDirectory(ToString(index) \o "_initial.model"),
                    InRunDirectory(ToString(index) \o "_generator_state.gs"),
                    InRunDirectory(ToString(index) \o "_run_desciption.json")}

\* C14: no step removes a run artifact: every run artifact that exists still
\* exists after any step, and the state record once written stays written.
C14_ArtifactsOnlyGrow ==
    [][/\ \A path \in files : IsRunArtifact(path) => path \in files'
       /\ \A path \in removed' : ~IsRunArtifact(path)
       /\ state_json # NoState => state_json' # NoState]_vars

\* C14 witness: a process that removed model_parameters after the model
\* creation command and went on to write every kind of run artifact.
C14_Witness ==
    /\ removed = {InRunDirectory("model_parameters")}
    /\ ~Exists(InRunDirectory("model_parameters"))
    /\ {InRunDirectory("state.json"), InRunDirectory("0_initial.model"),
        InRunDirectory("0_trained.model"), InRunDirectory("0_generator_state.gs"),
        InRunDirectory("0_run_desciption.json")} \subseteq files

\* The model snapshot and the generator state written under a run index.
TrainedModelOf(index) == InRunDirectory(ToString(index) \o "_trained.model")

GeneratorStateOf(index) == InRunDirectory(ToString(index) \o "_generator_state.gs")

\* The process runs on a directory that held a state record when it started.
Resumed == Constructed /\ state_at_start # NoState

\* The process before this one stopped inside checkpoint_method with the state
\* record written and the model not yet saved by it (between lines 172 and 173).
AfterCrashBeforeCheckpointModel ==
    Resumed /\ previous_ckpt = <<InRunDirectory("state.json")>>

\* C19 as claimed: the resumption that follows a crash inside checkpoint_method
\* between the state record and the model snapshot increments the run index
\* and finds no "<run index - 1>_trained.model".
C19_AsClaimed ==
    AfterCrashBeforeCheckpointModel =>
        /\ get_run_index(state) = get_run_index(state_at_start) + 1
        /\ get_previous_run_index_prefixed_path(state, "trained.model") \notin files_at_start

\* C19: the ModelCheckpoint callback saves "<run index>_trained.model" after
\* every batch and before checkpoint_method runs, so the model snapshot of the
\* recorded run index exists whenever the state record does, also between the
\* writes of a checkpoint; every resumption increments the run index and finds
\* "<run index - 1>_trained.model".
C19_ModelSnapshotPrecedesRecord ==
    /\ state_json # NoState => Exists(TrainedModelOf(get_run_index(state_json)))
    /\ pc \in {"checkpoint_state", "checkpoint_model", "checkpoint_generator"} =>
          Exists(get_run_index_prefixed_path(state, "trained.model"))
    /\ Resumed =>
          /\ get_run_index(state) = get_run_index(state_at_start) + 1
          /\ get_previous_run_index_prefixed_path(state, "trained.model") \in files_at_start
          /\ Exists(get_previous_run_index_prefixed_path(state, "trained.model"))
          /\ ~(/\ pc = "failed"
               /\ failure = "OSError"
               /\ model = ""
               /\ written = {get_run_index_prefixed_path(state, "run_desciption.json")})

\* C19 witness: a process of run index 1 that follows a crash between the
\* state record and the model snapshot of the first checkpoint of run index 0,
\* and has loaded "0_trained.model".
C19_Witness ==
    /\ AfterCrashBeforeCheckpointModel
    /\ get_run_index(state_at_start) = 0
    /\ GeneratorStateOf(0) \notin files_at_start
    /\ pc = "generators"
    /\ model = TrainedModelOf(0)

\* A process stopped inside its first checkpoint_method call with the state
\* record written and the generator state not (between lines 172 and 176).
StoppedInFirstCheckpoint ==
    /\ pc \in Stopped
    /\ ckpt_count = 1
    /\ Len(ckpt) \in {1, 2}

\* The directory holds a state record and no generator state of its run index.
StuckAtStart ==
    /\ Resumed
    /\ GeneratorStateOf(get_run_index(state_at_start)) \notin files_at_start

\* C20: a process of run index N that stops in its first checkpoint after the
\* state record and before "N_generator_state.gs" leaves the record at N and no
\* generator state of N; every later process on the directory has run index
\* N + 1, cannot restore the cursor of N (loading it raises when it gets
\* there), never compiles, trains or checkpoints, and leaves the state record
\* and the missing generator state as it found them.
C20_PermanentlyStuck ==
    /\ StoppedInFirstCheckpoint =>
          /\ state_json = state
          /\ ~Exists(get_run_index_prefixed_path(state, "generator_state.gs"))
    /\ StuckAtStart =>
          /\ get_run_index(state) = get_run_index(state_at_start) + 1
          /\ state_json = state_at_start
          /\ ~Exists(GeneratorStateOf(get_run_index(state_json)))
          /\ ~Exists(get_previous_run_index_prefixed_path(state, "generator_state.gs"))
          /\ pc \notin AfterLoadGenerator
          /\ generator = ""
          /\ batch = 0
          /\ ckpt_count = 0

\* C20 witness: the third process on the directory; the first stopped in its
\* first checkpoint, the second and this one resumed as run index 1, and this
\* one loaded "0_trained.model" and failed to restore the cursor of run index 0.
C20_Witness ==
    /\ starts = 3
    /\ StuckAtStart
    /\ previous_ckpt = <<>>
    /\ get_run_index(state_json) = 0
    /\ get_run_index(state) = 1
    /\ training_description # NoTrainingDescription
    /\ model = TrainedModelOf(0)
    /\ pc = "failed"
    /\ failure = "OSError"

\* The positions of a process whose last batch has been saved by the
\* ModelCheckpoint callback.
AfterModelCheckpoint == {"fit", "checkpoint_state", "checkpoint_model",
                         "checkpoint_generator", "done"}

\* C21: the state record is written by checkpoint_method only, never by the
\* constructor or by the save after every batch: a process that has not
\* checkpointed leaves the record as it found it, and a process of run index 0
\* that has saved "0_trained.model" after a batch but has not checkpointed
\* leaves none.  A process started without a state record, also on a directory
\* that holds "0_trained.model", has run index 0, keeps the configured model
\* source (the model creation command is run when the path is empty, and the
\* model is never loaded from "0_trained.model"), restores no cursor and
\* writes "0_trained.model" again after its first batch.
C21_RecordOnlyByCheckpoint ==
    /\ pc = "idle" => state_json = NoState
    /\ (Constructed /\ ckpt_count = 0) => state_json = state_at_start
    /\ (Constructed /\ get_run_index(state) = 0 /\ ckpt_count = 0) =>
          /\ state_json = NoState
          /\ ~Exists(get_state_path)
    /\ (Constructed /\ state_at_start = NoState) =>
          /\ state = FreshState
          /\ run_description.model_path \in ModelPaths
          /\ model \in {"", run_description.model_path, InRunDirectory("0_initial.model")}
          /\ model # TrainedModelOf(0)
          /\ (pc \in AfterFetchModel /\ run_description.model_path = "") =>
                /\ built
                /\ model = InRunDirectory("0_initial.model")
                /\ Exists(InRunDirectory("0_initial.model"))
          /\ generator = ""
          /\ (batch >= 1 /\ pc \in AfterModelCheckpoint) => TrainedModelOf(0) \in written

\* C21 witness: the second process on a directory where the first saved
\* "0_trained.model" and stopped without a checkpoint: it started without a
\* state record as run index 0, ran the model creation command for the empty
\* path, loaded "0_initial.model" and has written "0_trained.model" again,
\* still without a state record.
C21_Witness ==
    /\ starts = 2
    /\ state_at_start = NoState
    /\ TrainedModelOf(0) \in files_at_start
    /\ get_run_index(state) = 0
    /\ run_description.model_path = ""
    /\ built
    /\ model = InRunDirectory("0_initial.model")
    /\ pc = "fit"
    /\ batch = 1
    /\ ckpt_count = 0
    /\ TrainedModelOf(0) \in written
    /\ state_json = NoState

\* ---------------------------------------------------------------- NoteArray properties
FromPianorollOnly ==
    /\ note_array_args.pianoroll.given
    /\ ~note_array_args.flat_array.given

InKeyRange(key) ==
    /\ key >= note_array_args.min_key_index
    /\ key < note_array_args.min_key_index + note_array_args.num_keys

\* C15: for a pianoroll array, min_key_index and num_keys with
\* min_key_index + num_keys <= 128 and resolution 1.0, construction and
\* get_pianoroll succeed, and the returned array has the source's time steps,
\* the source's values at the keys of [min_key_index, min_key_index + num_keys)
\* and False at every other key.
C15_RoundTrip ==
    (/\ FromPianorollOnly
     /\ note_array_args.min_key_index + note_array_args.num_keys <= NumPianoKeys
     /\ note_array_args.resolution = ResolutionOne) =>
        /\ note_array_pc # "raised"
        /\ note_array_pc = "decoded" =>
              /\ Len(pianoroll_out) = Len(note_array_args.pianoroll.array)
              /\ \A t \in 1..Len(pianoroll_out) :
                    /\ Len(pianoroll_out[t]) = NumPianoKeys
                    /\ \A key \in 0..(NumPianoKeys - 1) :
                          pianoroll_out[t][key + 1] =
                              IF InKeyRange(key)
                              THEN note_array_args.pianoroll.array[t][key + 1]
                              ELSE FALSE

\* C15 witness: two time steps with keys 21 and 127 down, encoded with
\* min_key_index = 21 and num_keys = 88 and decoded: key 21 comes back, key
\* 127 does not.
C15_Witness ==
    /\ note_array_pc = "decoded"
    /\ FromPianorollOnly
    /\ note_array_args.min_key_index = 21
    /\ note_array_args.num_keys = 88
    /\ note_array_args.resolution = ResolutionOne
    /\ Len(note_array_args.pianoroll.array) = 2
    /\ note_array_args.pianoroll.array[2][22]
    /\ note_array_args.pianoroll.array[2][128]
    /\ pianoroll_out[2][22]
    /\ ~pianoroll_out[2][128]

\* C16: every constructed NoteArray has get_length_in_notes() =
\* time_steps * num_keys and get_length_in_timesteps() =
\* get_length_in_notes() // num_keys = time_steps; built from a flat_array,
\* its time_steps is the length of the flat_array divided by num_keys.
C16_AsClaimed ==
    note_array.constructed =>
        /\ get_length_in_notes(note_array) = note_array.time_steps * note_array.num_keys
        /\ get_length_in_timesteps(note_array) =
              [raised |-> FALSE, value |-> note_array.time_steps]
        /\ note_array_args.flat_array.given =>
              note_array.time_steps * note_array.num_keys =
                  Len(note_array_args.flat_array.array)

\* The lengths of C16 for the constructed NoteArrays that keep at least one key.
C16_LengthsWithKeys ==
    (note_array.constructed /\ note_array.num_keys >= 1) =>
        /\ get_length_in_notes(note_array) = note_array.time_steps * note_array.num_keys
        /\ get_length_in_timesteps(note_array) =
              [raised |-> FALSE, value |-> note_array.time_steps]
        /\ note_array_args.flat_array.given =>
              note_array.time_steps * note_array.num_keys =
                  Len(note_array_args.flat_array.array)

\* C17: a constructor call that passes both a pianoroll and a flat_array
\* raises, whatever the other arguments, and constructs no NoteArray.
C17_BothInitializersRaise ==
    (note_array_args.pianoroll.given /\ note_array_args.flat_array.given) =>
        /\ note_array_pc \in {"call", "raised"}
        /\ ~note_array.constructed
        /\ note_array_pc = "raised" =>
              note_array_error = "Cannot use both a pianoroll and flat_array initializer"

\* C17 witness: a call with both initializers whose other arguments would be
\* accepted with the flat_array alone, after it raised.
C17_Witness ==
    /\ note_array_pc = "raised"
    /\ note_array_args.pianoroll.given
    /\ Len(note_array_args.pianoroll.array) = 2
    /\ note_array_args.flat_array.given
    /\ Len(note_array_args.flat_array.array) = 2
    /\ note_array_args.min_key_index = 21
    /\ note_array_args.num_keys = 2
    /\ note_array_args.resolution = ResolutionOne

\* C18: a NoteArray constructed from a flat_array has resolution 1.0, so
\* get_pianoroll returns its array without a stretch.
C18_AsClaimed ==
    (note_array.constructed /\ note_array_args.flat_array.given) =>
        note_array.resolution = ResolutionOne

TypeOK ==
    /\ pc \in Stopped \cup {"execute", "fetch_data", "fetch_model", "model_creation",
                            "remove_parameters", "load_initial_model", "load_model",
                            "generators", "load_generator", "optimizer", "callbacks",
                            "fit", "model_checkpoint", "checkpoint_state",
                            "checkpoint_model", "checkpoint_generator"}
    /\ starts \in 0..MaxStarts
    /\ batch \in 0..MaxBatches
    /\ (state_json = NoState) = ~Exists(get_state_path)
====
